---------------------------- MODULE Spec2Model ----------------------------
(***************************************************************************)
(* Model of the live aggregation engine of src/app.py: the OAuth2 token    *)
(* manager (get_access_token), the cell fetcher (fetch_cell), the fetch    *)
(* orchestrator (fetch_positions), the snapshot cache read by              *)
(* /api/vehicles, and the refresh loop (polling_loop).                     *)
(*                                                                         *)
(* Threads: the poller thread, the pool workers of the ThreadPoolExecutor  *)
(* and the request handler threads of the threaded Flask server.  A step   *)
(* of the model is one stretch of code between two points where a thread   *)
(* can block or be observed: a lock acquisition, a network request, a      *)
(* sleep, or a write of shared state.                                      *)
(***************************************************************************)
EXTENDS Integers, Sequences, FiniteSets, TLC

(***************************************************************************)
(* Bounds of the model.                                                    *)
(***************************************************************************)
\* the clock runs from 0 to MaxNow seconds, in steps of TickSeconds
MaxNow == 60
TickSeconds == 30
\* distinct access_token values the token endpoint hands out: 1..MaxTokens
MaxTokens == 2
\* cells submitted per cycle (GRID_SIZE * GRID_SIZE = 16 in the program)
NumCells == 2

(***************************************************************************)
(* Program constants.                                                      *)
(***************************************************************************)
\* app.py:99   time.time() < _token_expires - 60
TokenGrace == 60
\* app.py:113  data.get("expires_in", 3600)
DefaultExpiresIn == 3600
\* app.py:147  for attempt in range(3)
MaxAttempts == 3

\* expires_in values a token response can carry (seconds)
ExpiresInValues == {30, 90}

Poller == "poller"
\* pool threads of ThreadPoolExecutor (max_workers = 4 in the program)
Workers == {"w1", "w2"}
\* request handler threads
Handlers == {"h1", "h2"}
TokenCallers == {Poller} \cup Workers
Threads == TokenCallers \cup Handlers
NoThread == "none"

Cells == 1..NumCells

\* _access_token = None
NoToken == 0

Range(seq) == { seq[i] : i \in 1..Len(seq) }

\* an optional value: absent (None, or a missing key) or present
None == << >>
Some(x) == << x >>

VARIABLES
  now,              \* time.time(), seconds
  access_token,     \* _access_token: NoToken or the number of the token
  token_expires,    \* _token_expires
  token_lock,       \* holder of _token_lock
  tpc,              \* per thread: position inside get_access_token
  tret,             \* per thread: what its last get_access_token returned
  raced,            \* per thread: the token a concurrent call stored by a
                    \* successful refresh while this call waited for the lock
  pc,               \* per thread: position in its own code
  cached_vehicles,  \* _cached_vehicles
  last_fetch_time,  \* _last_fetch_time
  last_fetch_count, \* _last_fetch_count
  cache_lock,       \* holder of _cache_lock
  published,        \* whether a publish block has completed
  token,            \* fetch_positions: token
  queue,            \* the executor's work queue: cells not yet taken
  fut,              \* per cell: state of its future
  result,           \* per cell: what fetch_cell returned
  outcomes,         \* per cell: the answer to each upstream request, in order
  merged,           \* cells whose result the as_completed loop has merged,
                    \* in the order of merging
  all_vehicles,     \* fetch_positions: all_vehicles, in insertion order
  processed,        \* fetch_positions: processed
  cell,             \* per worker: the cell it is fetching
  attempt,          \* per worker: fetch_cell: attempt
  count,            \* per handler: api_vehicles: count
  data,             \* per handler: api_vehicles: data
  poller_started,   \* _poller_started
  poller_lock,      \* holder of _poller_lock
  threads_started,  \* how many times poller.start() has been called
  grid              \* the grid of a cycle: GRID_SIZE, the bounding box, cells

tokenVars == << access_token, token_expires, token_lock, tpc, tret, raced >>
cacheVars == << cached_vehicles, last_fetch_time, last_fetch_count,
                cache_lock, published >>
cycleVars == << token, queue, fut, result, outcomes, merged,
                all_vehicles, processed >>
workerVars == << cell, attempt >>
handlerVars == << count, data >>
startVars == << poller_started, poller_lock, threads_started >>
gridVars == << grid >>
vars == << now, pc, tokenVars, cacheVars, cycleVars, workerVars, handlerVars,
           startVars, gridVars >>


(***************************************************************************)
(* Data: raw upstream records and the public Vehicle schema.               *)
(* Coordinates are integers in units of 1e-7 degree, so that rounding to   *)
(* six decimals (round(x, 6)) is rounding to a multiple of 10.             *)
(* A string field that is absent or empty is "".                           *)
(***************************************************************************)
Raw(ref, lat, lon, name, mode, bg, fg, shortDir, dir) ==
  [detailsReference |-> ref, latitude |-> lat, longitude |-> lon,
   name |-> name, transportMode |-> mode,
   backgroundColor |-> bg, foregroundColor |-> fg,
   shortDirection |-> shortDir, direction |-> dir, isRealtimeJourney |-> TRUE]

\* app.py:54-60
FALLBACK_COLORS ==
  [k \in {"tram", "bus", "train", "ferry", "unknown"} |->
     CASE k = "tram" -> "#0074BF"
       [] k = "bus" -> "#E4002B"
       [] k = "train" -> "#A855F7"
       [] k = "ferry" -> "#00E5FF"
       [] k = "unknown" -> "#0074BF"]

\* app.py:63-72
\* a table that keeps the transport mode as the type
TransportModeMapIdentity ==
  [k \in {"tram", "bus", "train", "ferry", "ship", "taxi", "unknown", "none"} |-> k]

TRANSPORT_MODE_MAP ==
  [k \in {"tram", "bus", "train", "ferry", "ship", "taxi", "unknown", "none"} |->
     CASE k = "tram" -> "tram"
       [] k = "bus" -> "bus"
       [] k = "train" -> "train"
       [] k = "ferry" -> "boat"
       [] k = "ship" -> "boat"
       [] k = "taxi" -> "bus"
       [] k = "unknown" -> "tram"
       [] k = "none" -> "bus"]

\* dict.get(key, default)
DictGet(d, k, default) == IF k \in DOMAIN d THEN d[k] ELSE default

\* round(x, 6) of a coordinate in units of 1e-7: to the nearest multiple of
\* 10, a tie going to the even sixth decimal
Round6(x) ==
  LET q == x \div 10
      r == x % 10
  IN  IF r < 5 THEN 10 * q
      ELSE IF r > 5 THEN 10 * (q + 1)
      ELSE IF q % 2 = 0 THEN 10 * q ELSE 10 * (q + 1)

\* app.py:183-185: the record is stored under its reference unless it has
\* none or the reference is already a key of all_vehicles
HasRef(all, ref) == \E i \in 1..Len(all) : all[i].detailsReference = ref

(***************************************************************************)
(* The grid of a refresh cycle (app.py:47-51, 134-146, 177).  Coordinates  *)
(* are counted in hundredths of a degree; a quotient is kept as an exact   *)
(* fraction num/den with den > 0, so that no step of the computation loses *)
(* anything.                                                               *)
(***************************************************************************)
\* app.py:47-51
GBG_LOWER_LAT == 5755
GBG_LOWER_LON == 1170
GBG_UPPER_LAT == 5790
GBG_UPPER_LON == 1225
GRID_SIZE == 4

\* grid sizes 1..MaxGrid and box spans 1..MaxSpan per axis are enumerated
MaxGrid == 3
MaxSpan == 3
\* lower corners of the enumerated boxes
GridLows == {-2, 1}

Frac(a, b) == [num |-> a, den |-> b]
FromInt(i) == Frac(i, 1)
FracAdd(x, y) == Frac(x.num * y.den + y.num * x.den, x.den * y.den)
FracMul(x, y) == Frac(x.num * y.num, x.den * y.den)
FracDivInt(x, k) == Frac(x.num, x.den * k)
FracLeq(x, y) == x.num * y.den <= y.num * x.den
FracLess(x, y) == x.num * y.den < y.num * x.den

ProgramGrid ==
  [n |-> GRID_SIZE,
   lower_lat |-> GBG_LOWER_LAT, lower_lon |-> GBG_LOWER_LON,
   upper_lat |-> GBG_UPPER_LAT, upper_lon |-> GBG_UPPER_LON,
   cells |-> << >>]

\* a step computed with floor division
LatStepFloor(g) == FromInt((g.upper_lat - g.lower_lat) \div g.n)

\* lat_step = (GBG_UPPER_LAT - GBG_LOWER_LAT) / GRID_SIZE
LatStep(g) == FracDivInt(FromInt(g.upper_lat - g.lower_lat), g.n)
\* lon_step = (GBG_UPPER_LON - GBG_LOWER_LON) / GRID_SIZE
LonStep(g) == FracDivInt(FromInt(g.upper_lon - g.lower_lon), g.n)

\* fetch_cell(row, col): the corners of the cell
GridCell(g, row, col) ==
  LET lat1 == FracAdd(FromInt(g.lower_lat), FracMul(FromInt(row), LatStep(g)))
      lon1 == FracAdd(FromInt(g.lower_lon), FracMul(FromInt(col), LonStep(g)))
      lat2 == FracAdd(lat1, LatStep(g))
      lon2 == FracAdd(lon1, LonStep(g))
  IN  [row |-> row, col |-> col,
       lat1 |-> lat1, lon1 |-> lon1, lat2 |-> lat2, lon2 |-> lon2]

\* cells = [(r, c) for r in range(GRID_SIZE) for c in range(GRID_SIZE)],
\* each with the corners fetch_cell computes for it
GridCellList(g) ==
  [k \in 1..(g.n * g.n) |-> GridCell(g, (k - 1) \div g.n, (k - 1) % g.n)]

\* the cells of one cycle are computed from the grid size and the box
GridCells ==
  /\ grid.cells = << >>
  /\ grid' = [grid EXCEPT !.cells = GridCellList(grid)]
  /\ UNCHANGED << now, pc, tokenVars, cacheVars, cycleVars, workerVars,
                  handlerVars, startVars >>

\* a merge that overwrites: all_vehicles[ref] = veh without the membership
\* test, so the last record seen for a reference replaces the first
MergeVehicleLastWins(all, veh) ==
  LET ref == veh.detailsReference
  IN  IF ref = "" THEN all
      ELSE IF HasRef(all, ref)
           THEN [i \in 1..Len(all) |->
                   IF all[i].detailsReference = ref THEN veh ELSE all[i]]
           ELSE Append(all, veh)

\* a merge that keeps every record it is given
MergeVehicleKeepAll(all, veh) == Append(all, veh)

MergeVehicle(all, veh) ==
  LET ref == veh.detailsReference
  IN  IF ref # "" /\ ~HasRef(all, ref) THEN Append(all, veh) ELSE all

\* app.py:182-185: for veh in vehicles
RECURSIVE MergeCell(_, _)
MergeCell(all, vehicles) ==
  IF vehicles = << >> THEN all
  ELSE MergeCell(MergeVehicle(all, Head(vehicles)), Tail(vehicles))

\* app.py:191-199: records without coordinates or line name are skipped
\* a validity test that forgets the line name
KeptWithoutName(veh) ==
  /\ veh.latitude # None
  /\ veh.longitude # None

Kept(veh) ==
  /\ veh.latitude # None
  /\ veh.longitude # None
  /\ veh.name # ""

\* app.py:201-228: the Vehicle built from a kept raw record
Vehicle(veh) ==
  LET lat == veh.latitude[1]
      lon == veh.longitude[1]
      transport_mode == IF veh.transportMode = "" THEN "bus" ELSE veh.transportMode
      vtype == DictGet(TRANSPORT_MODE_MAP, transport_mode, "bus")
      color == IF veh.backgroundColor # None THEN veh.backgroundColor[1]
               ELSE DictGet(FALLBACK_COLORS, vtype, "#E4002B")
      fg_color == IF veh.foregroundColor # None THEN veh.foregroundColor[1]
                  ELSE "#ffffff"
      destination == IF veh.shortDirection # "" THEN veh.shortDirection
                     ELSE veh.direction
      vehicle_id == IF veh.detailsReference # "" THEN << veh.detailsReference >>
                    ELSE << veh.name, lat, lon >>
  IN  [id |-> vehicle_id, lat |-> Round6(lat), lon |-> Round6(lon),
       line |-> veh.name, type |-> vtype, color |-> color,
       fgColor |-> fg_color, destination |-> destination,
       speed_kmh |-> 0, bearing |-> 0, isRealtime |-> veh.isRealtimeJourney]

\* app.py:189-228: for veh in raw_vehicles
RECURSIVE Normalize(_)
Normalize(raw_vehicles) ==
  IF raw_vehicles = << >> THEN << >>
  ELSE IF Kept(Head(raw_vehicles))
       THEN << Vehicle(Head(raw_vehicles)) >> \o Normalize(Tail(raw_vehicles))
       ELSE Normalize(Tail(raw_vehicles))

(***************************************************************************)
(* The raw records the upstream can return in the model.                   *)
(***************************************************************************)
RecA1 == Raw("ref-a", Some(576000004), Some(119000000), "6", "tram", None, None, "Kortedala", "")
RecA2 == Raw("ref-a", Some(576100000), Some(119100000), "6", "tram", None, None, "Kortedala", "")
RecA0 == Raw("ref-a", None, Some(119000000), "6", "tram", None, None, "", "")
RecB  == Raw("ref-b", Some(577000015), Some(120000000), "16", "bus", Some("#123456"), Some("#000000"), "", "Eketr")
RecC  == Raw("ref-c", Some(578000000), Some(121000000), "281", "ship", None, None, "", "Vrango")
RecN  == Raw("", Some(579000000), Some(122000000), "X4", "", None, None, "", "")

\* records that miss one of the fields normalization requires
RecNoLon  == Raw("ref-b", Some(577000015), None, "16", "bus", None, None, "", "Angered")
RecNoName == Raw("ref-c", Some(578000000), Some(121000000), "", "ship", None, None, "", "Vrango")

RawRecords == {RecA1, RecA2, RecA0, RecB, RecC, RecN}

\* what a successful cell request returns while the whole program runs
LivePayloads == { << RecA1 >>, << RecA2, RecB >> }


(***************************************************************************)
(* The clock.                                                              *)
(***************************************************************************)
Tick ==
  /\ now + TickSeconds <= MaxNow
  /\ now' = now + TickSeconds
  /\ UNCHANGED << pc, tokenVars, cacheVars, cycleVars, workerVars,
                  handlerVars, startVars, gridVars >>

(***************************************************************************)
(* Token manager: get_access_token, app.py:93-118.                         *)
(* A caller enters by setting tpc to "wait" and continues once tpc is      *)
(* "ret", with the returned token in tret.                                 *)
(***************************************************************************)
NoReturn == [tok |-> NoToken, how |-> "none", margin |-> 0]

\* what the token endpoint can answer: "error" is any failure before the
\* access_token is read (network error, non-2xx, no JSON, no access_token
\* key); "badexpiry" is a body with a usable access_token whose expires_in
\* cannot be added to a time
TokenResponses ==
  [kind : {"error", "badexpiry"}, access_token : 1..MaxTokens,
   expires_in : {None}]
  \cup [kind : {"ok"}, access_token : 1..MaxTokens,
        expires_in : {None} \cup {Some(e) : e \in ExpiresInValues}]

\* data.get("expires_in", 3600)
ExpiresIn(resp) ==
  IF resp.expires_in = None THEN DefaultExpiresIn ELSE resp.expires_in[1]

\* a token manager whose lock excludes nobody
TokenLockIgnored == TRUE

\* with _token_lock: the lock can be taken
TokenLockFree == token_lock = NoThread

\* the validity test without the 60 second margin
TokenFreshNoGrace == access_token # NoToken /\ now < token_expires

\* the validity test with the comparison turned around
TokenFreshInverted == access_token # NoToken /\ now > token_expires - TokenGrace

\* app.py:99
TokenFresh == access_token # NoToken /\ now < token_expires - TokenGrace

\* return tok, leaving the with block; margin records how far ahead the
\* stored expiry is at that moment
TokReturn(t, tok, how) ==
  /\ tret' = [tret EXCEPT ![t] =
                [tok |-> tok, how |-> how, margin |-> token_expires' - now]]
  /\ tpc' = [tpc EXCEPT ![t] = "ret"]
  /\ token_lock' = NoThread

TokAcquire(t) ==
  /\ tpc[t] = "wait"
  /\ TokenLockFree
  /\ token_lock' = t
  /\ tpc' = [tpc EXCEPT ![t] = "check"]
  /\ UNCHANGED << now, pc, access_token, token_expires, tret, raced,
                  cacheVars, cycleVars, workerVars, handlerVars, startVars, gridVars >>

\* a check that leaves the with block before sending the token request
TokCheckUnlocked(t) ==
  /\ tpc[t] = "check"
  /\ IF TokenFresh
     THEN /\ UNCHANGED << access_token, token_expires >>
          /\ TokReturn(t, access_token, "cached")
     ELSE /\ tpc' = [tpc EXCEPT ![t] = "post"]
          /\ token_lock' = NoThread
          /\ UNCHANGED << access_token, token_expires, tret >>
  /\ UNCHANGED << now, pc, raced, cacheVars, cycleVars, workerVars,
                  handlerVars, startVars, gridVars >>

\* app.py:99-109: reuse the stored token, or send the token request
TokCheck(t) ==
  /\ tpc[t] = "check"
  /\ IF TokenFresh
     THEN /\ UNCHANGED << access_token, token_expires >>
          /\ TokReturn(t, access_token, "cached")
     ELSE /\ tpc' = [tpc EXCEPT ![t] = "post"]
          /\ UNCHANGED << access_token, token_expires, token_lock, tret >>
  /\ UNCHANGED << now, pc, raced, cacheVars, cycleVars, workerVars,
                  handlerVars, startVars, gridVars >>

\* app.py:110-118: the response, or the exception, of the token request
TokStore(t, resp) ==
  CASE resp.kind = "ok" ->
         /\ access_token' = resp.access_token
         /\ token_expires' = now + ExpiresIn(resp)
         /\ TokReturn(t, access_token', "refreshed")
         /\ raced' = [u \in TokenCallers |->
                        IF u # t /\ tpc[u] = "wait" THEN resp.access_token
                        ELSE raced[u]]
    [] resp.kind = "badexpiry" ->
         /\ access_token' = resp.access_token
         /\ token_expires' = token_expires
         /\ TokReturn(t, access_token', "failed")
         /\ UNCHANGED raced
    [] resp.kind = "error" ->
         /\ UNCHANGED << access_token, token_expires, raced >>
         /\ TokReturn(t, access_token, "failed")

TokReply(t, responses) ==
  /\ tpc[t] = "post"
  /\ \E resp \in responses : TokStore(t, resp)
  /\ UNCHANGED << now, pc, cacheVars, cycleVars, workerVars,
                  handlerVars, startVars, gridVars >>

(***************************************************************************)
(* Cell fetcher: fetch_cell, app.py:141-173, run by a pool worker.         *)
(***************************************************************************)
\* what the positions endpoint can answer to one request
\* what resp.json() returns for a 200 answer whose body is not a list of
\* record objects (an object, or a list holding something that has no
\* get): fetch_cell returns it as it is
Malformed == << [malformed |-> TRUE] >>

MalformedResponse == [kind |-> "malformed", body |-> Malformed]

CellResponses ==
  { [kind |-> "429", body |-> << >>], [kind |-> "error", body |-> << >>] }
  \cup { [kind |-> "ok", body |-> b] : b \in LivePayloads }

\* the future of cell c completes with the records r
Finish(w, r) ==
  /\ result' = [result EXCEPT ![cell[w]] = r]
  /\ fut' = [fut EXCEPT ![cell[w]] = "done"]
  /\ pc' = [pc EXCEPT ![w] = "idle"]
  /\ attempt' = [attempt EXCEPT ![w] = 0]

\* a worker takes the next cell from the executor's queue and enters
\* fetch_cell: attempt 0 starts with get_access_token (app.py:149)
WTake(w) ==
  /\ pc[w] = "idle"
  /\ queue # << >>
  /\ cell' = [cell EXCEPT ![w] = Head(queue)]
  /\ queue' = Tail(queue)
  /\ fut' = [fut EXCEPT ![Head(queue)] = "running"]
  /\ attempt' = [attempt EXCEPT ![w] = 0]
  /\ pc' = [pc EXCEPT ![w] = "token"]
  /\ tpc' = [tpc EXCEPT ![w] = "wait"]
  /\ UNCHANGED << now, access_token, token_expires, token_lock, tret, raced,
                  cacheVars, token, result, outcomes, merged,
                  all_vehicles, processed, handlerVars, startVars, gridVars >>

\* app.py:150-164: the positions request is sent
WRequest(w) ==
  /\ pc[w] = "token"
  /\ tpc[w] = "ret"
  /\ pc' = [pc EXCEPT ![w] = "get"]
  /\ tpc' = [tpc EXCEPT ![w] = "none"]
  /\ tret' = [tret EXCEPT ![w] = NoReturn]
  /\ raced' = [raced EXCEPT ![w] = NoToken]
  /\ UNCHANGED << now, access_token, token_expires, token_lock, cacheVars, cycleVars, workerVars, handlerVars, startVars, gridVars >>

\* whether the loop goes to sleep after this response (app.py:165-172)
SleepsAfter(kind, att) ==
  \/ kind = "429"
  \/ kind = "error" /\ att < MaxAttempts - 1

\* app.py:165-173: the response, or the exception, of the positions request
WReply(w, responses) ==
  /\ pc[w] = "get"
  /\ \E resp \in responses :
       /\ outcomes' = [outcomes EXCEPT ![cell[w]] = Append(@, resp)]
       /\ IF resp.kind \in {"ok", "malformed"}
          THEN Finish(w, resp.body)
          ELSE IF SleepsAfter(resp.kind, attempt[w])
               THEN /\ pc' = [pc EXCEPT ![w] = "sleep"]
                    /\ UNCHANGED << result, fut, attempt >>
               ELSE Finish(w, << >>)
  /\ UNCHANGED << now, tokenVars, cacheVars, token, queue, merged,
                  all_vehicles, processed, cell, handlerVars, startVars, gridVars >>

\* a retry loop in which a slept attempt does not count
WWakeUncounted(w) ==
  /\ pc[w] = "sleep"
  /\ pc' = [pc EXCEPT ![w] = "token"]
  /\ tpc' = [tpc EXCEPT ![w] = "wait"]
  /\ UNCHANGED << now, access_token, token_expires, token_lock, tret, raced,
                  cacheVars, token, queue, fut, result, outcomes, merged,
                  all_vehicles, processed, workerVars, handlerVars,
                  startVars, gridVars >>

\* a retry loop that raises once its attempts are used up, so that
\* future.result() raises in fetch_positions and the cycle ends unpublished
WWakeRaises(w) ==
  /\ pc[w] = "sleep"
  /\ IF attempt[w] + 1 < MaxAttempts
     THEN /\ attempt' = [attempt EXCEPT ![w] = @ + 1]
          /\ pc' = [pc EXCEPT ![w] = "token"]
          /\ tpc' = [tpc EXCEPT ![w] = "wait"]
          /\ UNCHANGED << result, fut >>
     ELSE /\ fut' = [fut EXCEPT ![cell[w]] = "done"]
          /\ pc' = [pc EXCEPT ![w] = "idle", ![Poller] = "sleep"]
          /\ attempt' = [attempt EXCEPT ![w] = 0]
          /\ UNCHANGED << result, tpc >>
  /\ UNCHANGED << now, access_token, token_expires, token_lock, tret, raced,
                  cacheVars, token, queue, outcomes, merged,
                  all_vehicles, processed, cell, handlerVars, startVars, gridVars >>

\* the sleep ends: the next attempt starts, or the loop is over and
\* fetch_cell returns [] (app.py:147, 173)
WWake(w) ==
  /\ pc[w] = "sleep"
  /\ IF attempt[w] + 1 < MaxAttempts
     THEN /\ attempt' = [attempt EXCEPT ![w] = @ + 1]
          /\ pc' = [pc EXCEPT ![w] = "token"]
          /\ tpc' = [tpc EXCEPT ![w] = "wait"]
          /\ UNCHANGED << result, fut >>
     ELSE /\ Finish(w, << >>)
          /\ UNCHANGED tpc
  /\ UNCHANGED << now, access_token, token_expires, token_lock, tret, raced,
                  cacheVars, token, queue, outcomes, merged,
                  all_vehicles, processed, cell, handlerVars, startVars, gridVars >>


(***************************************************************************)
(* Refresh loop and fetch orchestrator: polling_loop, app.py:238-254, and  *)
(* fetch_positions, app.py:125-235, run by the poller thread.              *)
(***************************************************************************)
\* app.py:177: the cells, in submission order
CellOrder == [i \in 1..NumCells |-> i]

\* the locals of fetch_positions before a cycle and after its return
NoCycle ==
  /\ token' = NoToken
  /\ queue' = << >>
  /\ fut' = [c \in Cells |-> "none"]
  /\ result' = [c \in Cells |-> << >>]
  /\ outcomes' = [c \in Cells |-> << >>]
  /\ merged' = << >>
  /\ all_vehicles' = << >>
  /\ processed' = << >>

\* app.py:245 returned: the loop is entered
PInitReturn ==
  /\ pc[Poller] = "init_token"
  /\ tpc[Poller] = "ret"
  /\ pc' = [pc EXCEPT ![Poller] = "loop"]
  /\ tpc' = [tpc EXCEPT ![Poller] = "none"]
  /\ tret' = [tret EXCEPT ![Poller] = NoReturn]
  /\ raced' = [raced EXCEPT ![Poller] = NoToken]
  /\ UNCHANGED << now, access_token, token_expires, token_lock, cacheVars, cycleVars, workerVars, handlerVars, startVars, gridVars >>

\* app.py:251, 129: fetch_positions is called and calls get_access_token
PCallToken ==
  /\ pc[Poller] = "loop"
  /\ pc' = [pc EXCEPT ![Poller] = "cycle_token"]
  /\ tpc' = [tpc EXCEPT ![Poller] = "wait"]
  /\ UNCHANGED << now, access_token, token_expires, token_lock, tret, raced,
                  cacheVars, token, queue, fut, result, outcomes, merged,
                  all_vehicles, processed, workerVars, handlerVars,
                  startVars, gridVars >>

\* a cycle that goes on to fetch the cells without testing the token
PGotTokenUnchecked ==
  /\ pc[Poller] = "cycle_token"
  /\ tpc[Poller] = "ret"
  /\ tpc' = [tpc EXCEPT ![Poller] = "none"]
  /\ tret' = [tret EXCEPT ![Poller] = NoReturn]
  /\ raced' = [raced EXCEPT ![Poller] = NoToken]
  /\ token' = tret[Poller].tok
  /\ queue' = CellOrder
  /\ fut' = [c \in Cells |-> "pending"]
  /\ pc' = [pc EXCEPT ![Poller] = "collect"]
  /\ UNCHANGED << now, access_token, token_expires, token_lock, cacheVars,
                  result, outcomes, merged, all_vehicles, processed,
                  workerVars, handlerVars, startVars, gridVars >>

\* app.py:129-132, 177-179: without a token the cycle returns; with one,
\* every cell is submitted to the executor
PGotToken ==
  /\ pc[Poller] = "cycle_token"
  /\ tpc[Poller] = "ret"
  /\ tpc' = [tpc EXCEPT ![Poller] = "none"]
  /\ tret' = [tret EXCEPT ![Poller] = NoReturn]
  /\ raced' = [raced EXCEPT ![Poller] = NoToken]
  /\ IF tret[Poller].tok = NoToken
     THEN /\ pc' = [pc EXCEPT ![Poller] = "sleep"]
          /\ UNCHANGED << token, queue, fut, result, outcomes, merged,
                          all_vehicles, processed >>
     ELSE /\ token' = tret[Poller].tok
          /\ queue' = CellOrder
          /\ fut' = [c \in Cells |-> "pending"]
          /\ pc' = [pc EXCEPT ![Poller] = "collect"]
          /\ UNCHANGED << result, outcomes, merged, all_vehicles, processed >>
  /\ UNCHANGED << now, access_token, token_expires, token_lock, cacheVars, workerVars, handlerVars, startVars, gridVars >>

\* app.py:180-185: as_completed yields a finished future, whose records
\* are merged into all_vehicles; veh.get raises when the result is not a
\* list of record objects
PMerge(c) ==
  /\ pc[Poller] = "collect"
  /\ fut[c] = "done"
  /\ c \notin Range(merged)
  /\ merged' = Append(merged, c)
  /\ IF result[c] = Malformed
     THEN /\ pc' = [pc EXCEPT ![Poller] = "raised"]
          /\ UNCHANGED all_vehicles
     ELSE /\ all_vehicles' = MergeCell(all_vehicles, result[c])
          /\ UNCHANGED pc
  /\ UNCHANGED << now, tokenVars, cacheVars, token, queue, fut,
                  result, outcomes, processed, workerVars, handlerVars,
                  startVars, gridVars >>

\* an exception that ends the thread instead of being caught
PCrash ==
  /\ pc[Poller] = "raised"
  /\ \A c \in Cells : fut[c] = "done"
  /\ pc' = [pc EXCEPT ![Poller] = "dead"]
  /\ NoCycle
  /\ UNCHANGED << now, tokenVars, cacheVars, workerVars, handlerVars,
                  startVars, gridVars >>

\* app.py:178, 252-254: the exception leaves the with block of the
\* executor, which waits for every submitted cell fetch to finish, then
\* fetch_positions; polling_loop catches it and goes to its sleep
PCatch ==
  /\ pc[Poller] = "raised"
  /\ \A c \in Cells : fut[c] = "done"
  /\ pc' = [pc EXCEPT ![Poller] = "sleep"]
  /\ NoCycle
  /\ UNCHANGED << now, tokenVars, cacheVars, workerVars, handlerVars,
                  startVars, gridVars >>

\* app.py:187-228: every future has been merged and the executor is shut
\* down; the merged records are normalized
\* normalisation that starts as soon as one cell has been merged
PNormalizeEarly ==
  /\ pc[Poller] = "collect"
  /\ merged # << >>
  /\ processed' = Normalize(all_vehicles)
  /\ pc' = [pc EXCEPT ![Poller] = "publish_lock"]
  /\ UNCHANGED << now, tokenVars, cacheVars, token, queue, fut,
                  result, outcomes, merged, all_vehicles, workerVars,
                  handlerVars, startVars, gridVars >>

PNormalize ==
  /\ pc[Poller] = "collect"
  /\ Range(merged) = Cells
  /\ processed' = Normalize(all_vehicles)
  /\ pc' = [pc EXCEPT ![Poller] = "publish_lock"]
  /\ UNCHANGED << now, tokenVars, cacheVars, token, queue, fut,
                  result, outcomes, merged, all_vehicles, workerVars,
                  handlerVars, startVars, gridVars >>

\* a snapshot cache whose lock excludes nobody
CacheLockIgnored == TRUE

\* with _cache_lock: the lock can be taken
CacheLockFree == cache_lock = NoThread

\* a publish block that calls get_access_token inside the with block
PAcquireRefreshing ==
  /\ pc[Poller] = "publish_lock"
  /\ CacheLockFree
  /\ cache_lock' = Poller
  /\ pc' = [pc EXCEPT ![Poller] = "publish_vehicles"]
  /\ tpc' = [tpc EXCEPT ![Poller] = "wait"]
  /\ UNCHANGED << now, access_token, token_expires, token_lock, tret, raced,
                  cached_vehicles, last_fetch_time, last_fetch_count,
                  published, cycleVars, workerVars, handlerVars, startVars, gridVars >>

\* app.py:230
PAcquire ==
  /\ pc[Poller] = "publish_lock"
  /\ CacheLockFree
  /\ cache_lock' = Poller
  /\ pc' = [pc EXCEPT ![Poller] = "publish_vehicles"]
  /\ UNCHANGED << now, tokenVars, cached_vehicles, last_fetch_time,
                  last_fetch_count, published, cycleVars, workerVars,
                  handlerVars, startVars, gridVars >>

\* app.py:231
PPublishVehicles ==
  /\ pc[Poller] = "publish_vehicles"
  /\ cached_vehicles' = processed
  /\ pc' = [pc EXCEPT ![Poller] = "publish_time"]
  /\ UNCHANGED << now, tokenVars, last_fetch_time, last_fetch_count,
                  cache_lock, published, cycleVars, workerVars, handlerVars,
                  startVars, gridVars >>

\* app.py:232
PPublishTime ==
  /\ pc[Poller] = "publish_time"
  /\ last_fetch_time' = now
  /\ pc' = [pc EXCEPT ![Poller] = "publish_count"]
  /\ UNCHANGED << now, tokenVars, cached_vehicles, last_fetch_count,
                  cache_lock, published, cycleVars, workerVars, handlerVars,
                  startVars, gridVars >>

\* a publish that goes to sleep still inside the with block
PPublishCountHolding ==
  /\ pc[Poller] = "publish_count"
  /\ last_fetch_count' = Len(processed)
  /\ published' = TRUE
  /\ pc' = [pc EXCEPT ![Poller] = "sleep"]
  /\ NoCycle
  /\ UNCHANGED << now, tokenVars, cached_vehicles, last_fetch_time,
                  cache_lock, workerVars, handlerVars, startVars, gridVars >>

\* app.py:233-235: the last assignment of the block; the lock is released
\* and fetch_positions returns
PPublishCount ==
  /\ pc[Poller] = "publish_count"
  /\ last_fetch_count' = Len(processed)
  /\ cache_lock' = NoThread
  /\ published' = TRUE
  /\ pc' = [pc EXCEPT ![Poller] = "sleep"]
  /\ NoCycle
  /\ UNCHANGED << now, tokenVars, cached_vehicles, last_fetch_time, workerVars, handlerVars, startVars, gridVars >>

\* app.py:254: time.sleep(POLL_INTERVAL) is over
PWake ==
  /\ pc[Poller] = "sleep"
  /\ pc' = [pc EXCEPT ![Poller] = "loop"]
  /\ UNCHANGED << now, tokenVars, cacheVars, cycleVars, workerVars,
                  handlerVars, startVars, gridVars >>

(***************************************************************************)
(* Request handlers: before_request / start_poller_if_needed,              *)
(* app.py:264-277, then api_vehicles, app.py:284-294.                      *)
(***************************************************************************)
\* a request arrives at a handler thread that is idle or has responded;
\* app.py:267: the first check of _poller_started
HStartCheck(h) ==
  /\ pc[h] \in {"idle", "responded"}
  /\ pc' = [pc EXCEPT ![h] = IF poller_started THEN "read_lock" ELSE "start_lock"]
  /\ count' = [count EXCEPT ![h] = 0]
  /\ data' = [data EXCEPT ![h] = << >>]
  /\ UNCHANGED << now, tokenVars, cacheVars, cycleVars, workerVars,
                  startVars, gridVars >>

\* a start lock that excludes nobody
PollerLockIgnored == TRUE

\* with _poller_lock: the lock can be taken
PollerLockFree == poller_lock = NoThread

\* app.py:268
HStartAcquire(h) ==
  /\ pc[h] = "start_lock"
  /\ PollerLockFree
  /\ poller_lock' = h
  /\ pc' = [pc EXCEPT ![h] = "start_recheck"]
  /\ UNCHANGED << now, tokenVars, cacheVars, cycleVars, workerVars,
                  handlerVars, poller_started, threads_started, gridVars >>

\* a start without the second check under the lock
HStartThreadNoRecheck(h) ==
  /\ pc[h] = "start_recheck"
  /\ pc' = [pc EXCEPT ![h] = "start_set", ![Poller] = "init_token"]
  /\ tpc' = [tpc EXCEPT ![Poller] = "wait"]
  /\ threads_started' = threads_started + 1
  /\ UNCHANGED << now, access_token, token_expires, token_lock, tret, raced,
                  cacheVars, cycleVars, workerVars, handlerVars,
                  poller_started, poller_lock, gridVars >>

\* app.py:269-271: the second check; the poller thread is started and
\* begins polling_loop with get_access_token (app.py:245)
HStartThread(h) ==
  /\ pc[h] = "start_recheck"
  /\ IF poller_started
     THEN /\ poller_lock' = NoThread
          /\ pc' = [pc EXCEPT ![h] = "read_lock"]
          /\ UNCHANGED << tpc, threads_started >>
     ELSE /\ pc' = [pc EXCEPT ![h] = "start_set", ![Poller] = "init_token"]
          /\ tpc' = [tpc EXCEPT ![Poller] = "wait"]
          /\ threads_started' = threads_started + 1
          /\ UNCHANGED poller_lock
  /\ UNCHANGED << now, access_token, token_expires, token_lock, tret, raced,
                  cacheVars, cycleVars, workerVars, handlerVars,
                  poller_started, gridVars >>

\* app.py:272-273
HStartSet(h) ==
  /\ pc[h] = "start_set"
  /\ poller_started' = TRUE
  /\ poller_lock' = NoThread
  /\ pc' = [pc EXCEPT ![h] = "read_lock"]
  /\ UNCHANGED << now, tokenVars, cacheVars, cycleVars, workerVars,
                  handlerVars, threads_started, gridVars >>

\* app.py:287
HAcquire(h) ==
  /\ pc[h] = "read_lock"
  /\ CacheLockFree
  /\ cache_lock' = h
  /\ pc' = [pc EXCEPT ![h] = "read_len"]
  /\ UNCHANGED << now, tokenVars, cached_vehicles, last_fetch_time,
                  last_fetch_count, published, cycleVars, workerVars,
                  handlerVars, startVars, gridVars >>

\* app.py:288
HReadLen(h) ==
  /\ pc[h] = "read_len"
  /\ count' = [count EXCEPT ![h] = Len(cached_vehicles)]
  /\ pc' = [pc EXCEPT ![h] = "read_data"]
  /\ UNCHANGED << now, tokenVars, cacheVars, cycleVars, workerVars, data,
                  startVars, gridVars >>

\* a read that answers with an empty list whatever the cache holds
HReadDataStale(h) ==
  /\ pc[h] = "read_data"
  /\ data' = [data EXCEPT ![h] = << >>]
  /\ cache_lock' = NoThread
  /\ pc' = [pc EXCEPT ![h] = "responded"]
  /\ UNCHANGED << now, tokenVars, cached_vehicles, last_fetch_time,
                  last_fetch_count, published, cycleVars, workerVars, count,
                  startVars, gridVars >>

\* app.py:289-294: the response body is built, the lock released and the
\* response returned
HReadData(h) ==
  /\ pc[h] = "read_data"
  /\ data' = [data EXCEPT ![h] = cached_vehicles]
  /\ cache_lock' = NoThread
  /\ pc' = [pc EXCEPT ![h] = "responded"]
  /\ UNCHANGED << now, tokenVars, cached_vehicles, last_fetch_time,
                  last_fetch_count, published, cycleVars, workerVars, count,
                  startVars, gridVars >>

(***************************************************************************)
(* The program.                                                            *)
(***************************************************************************)
\* a cache that starts with a placeholder entry
PlaceholderVehicles == << Vehicle(RecB) >>

\* app.py:78: _cached_vehicles = []
InitialVehicles == << >>

Init ==
  /\ now = 0
  /\ access_token = NoToken
  /\ token_expires = 0
  /\ token_lock = NoThread
  /\ tpc = [t \in TokenCallers |-> "none"]
  /\ tret = [t \in TokenCallers |-> NoReturn]
  /\ raced = [t \in TokenCallers |-> NoToken]
  /\ pc = [t \in Threads |-> IF t = Poller THEN "off" ELSE "idle"]
  /\ cached_vehicles = InitialVehicles
  /\ last_fetch_time = 0
  /\ last_fetch_count = 0
  /\ cache_lock = NoThread
  /\ published = FALSE
  /\ token = NoToken
  /\ queue = << >>
  /\ fut = [c \in Cells |-> "none"]
  /\ result = [c \in Cells |-> << >>]
  /\ outcomes = [c \in Cells |-> << >>]
  /\ merged = << >>
  /\ all_vehicles = << >>
  /\ processed = << >>
  /\ cell = [w \in Workers |-> 1]
  /\ attempt = [w \in Workers |-> 0]
  /\ count = [h \in Handlers |-> 0]
  /\ data = [h \in Handlers |-> << >>]
  /\ poller_started = FALSE
  /\ poller_lock = NoThread
  /\ threads_started = 0
  /\ grid = ProgramGrid

PollerStep ==
  \/ PInitReturn \/ PCallToken \/ PGotToken
  \/ (\E c \in Cells : PMerge(c))
  \/ PNormalize \/ PAcquire \/ PPublishVehicles \/ PPublishTime
  \/ PPublishCount \/ PWake

HandlerStep ==
  \E h \in Handlers :
    \/ HStartCheck(h) \/ HStartAcquire(h) \/ HStartThread(h)
    \/ HStartSet(h) \/ HAcquire(h) \/ HReadLen(h) \/ HReadData(h)

(***************************************************************************)
(* Spec: the whole program, every thread, with endpoints that either       *)
(* answer well (a token without expires_in, a cell's records) or fail.     *)
(***************************************************************************)
QuietTokenResponses ==
  { r \in TokenResponses :
      r.access_token = 1 /\ r.expires_in = None /\ r.kind # "badexpiry" }

QuietCellResponses == { r \in CellResponses : r.kind = "ok" }

QuietTokenStep ==
  \E t \in TokenCallers :
    TokAcquire(t) \/ TokCheck(t) \/ TokReply(t, QuietTokenResponses)

QuietWorkerStep ==
  \E w \in Workers :
    WTake(w) \/ WRequest(w) \/ WReply(w, QuietCellResponses)

Next == QuietTokenStep \/ QuietWorkerStep \/ PollerStep \/ HandlerStep

Spec == Init /\ [][Next]_vars

(***************************************************************************)
(* SpecToken, SpecRefresh and SpecCell: the poller thread and the pool    *)
(* workers from the moment the poller thread has been started.            *)
(* SpecToken has the clock and                                             *)
(* every answer of the token endpoint; SpecRefresh has the clock and a     *)
(* token endpoint that always succeeds; SpecCell has every answer of the   *)
(* positions endpoint during the first refresh cycle.                      *)
(***************************************************************************)
\* the state once the first request has started the poller thread
\* (app.py:270-272) and been served
InitAuth ==
  /\ now = 0
  /\ access_token = NoToken
  /\ token_expires = 0
  /\ token_lock = NoThread
  /\ tpc = [t \in TokenCallers |-> IF t = Poller THEN "wait" ELSE "none"]
  /\ tret = [t \in TokenCallers |-> NoReturn]
  /\ raced = [t \in TokenCallers |-> NoToken]
  /\ pc = [t \in Threads |-> IF t = Poller THEN "init_token" ELSE "idle"]
  /\ cached_vehicles = InitialVehicles
  /\ last_fetch_time = 0
  /\ last_fetch_count = 0
  /\ cache_lock = NoThread
  /\ published = FALSE
  /\ token = NoToken
  /\ queue = << >>
  /\ fut = [c \in Cells |-> "none"]
  /\ result = [c \in Cells |-> << >>]
  /\ outcomes = [c \in Cells |-> << >>]
  /\ merged = << >>
  /\ all_vehicles = << >>
  /\ processed = << >>
  /\ cell = [w \in Workers |-> 1]
  /\ attempt = [w \in Workers |-> 0]
  /\ count = [h \in Handlers |-> 0]
  /\ data = [h \in Handlers |-> << >>]
  /\ poller_started = TRUE
  /\ poller_lock = NoThread
  /\ threads_started = 1
  /\ grid = ProgramGrid

TokenStep ==
  \E t \in TokenCallers :
    TokAcquire(t) \/ TokCheck(t) \/ TokReply(t, TokenResponses)

\* every cell request succeeds with one fixed list of records
PlainCellResponses == { [kind |-> "ok", body |-> << RecA2, RecB >>] }

PlainWorkerStep ==
  \E w \in Workers :
    WTake(w) \/ WRequest(w) \/ WReply(w, PlainCellResponses)

NextToken == Tick \/ TokenStep \/ PlainWorkerStep \/ PollerStep

SpecToken == InitAuth /\ [][NextToken]_vars

\* SpecRefresh: as SpecToken, with a token endpoint that always answers
\* successfully, with any token and any expires_in
OkTokenResponses == { r \in TokenResponses : r.kind = "ok" }

OkTokenStep ==
  \E t \in TokenCallers :
    TokAcquire(t) \/ TokCheck(t) \/ TokReply(t, OkTokenResponses)

NextRefresh == Tick \/ OkTokenStep \/ PlainWorkerStep \/ PollerStep

SpecRefresh == InitAuth /\ [][NextRefresh]_vars

\* every kind of answer of the positions endpoint, a success carrying one
\* fixed list of records
RetryCellResponses ==
  { r \in CellResponses : r.kind = "ok" => r.body = << RecA2, RecB >> }

RetryWorkerStep ==
  \E w \in Workers :
    WTake(w) \/ WRequest(w) \/ WReply(w, RetryCellResponses) \/ WWake(w)

\* the token endpoint always answers with the same token and no expires_in
SteadyTokenResponses == { r \in QuietTokenResponses : r.kind = "ok" }

SteadyTokenStep ==
  \E t \in TokenCallers :
    TokAcquire(t) \/ TokCheck(t) \/ TokReply(t, SteadyTokenResponses)

\* the poller thread up to the end of its first refresh cycle
FirstCycleStep ==
  \/ PInitReturn \/ PCallToken \/ PGotToken
  \/ (\E c \in Cells : PMerge(c))
  \/ PNormalize \/ PAcquire \/ PPublishVehicles \/ PPublishTime
  \/ PPublishCount

NextCell == SteadyTokenStep \/ RetryWorkerStep \/ FirstCycleStep

SpecCell == InitAuth /\ [][NextCell]_vars

(***************************************************************************)
(* SpecPool: repeated cycles with a pool smaller than the number of cells  *)
(* (one worker thread for NumCells cells, where the program has 4 for 16), *)
(* with every answer of the positions endpoint.                            *)
(***************************************************************************)
\* a pool with one thread per cell
UnboundedPool == Workers

\* app.py:178: the worker threads of the executor
SmallPool == {"w1"}

PoolWorkerStep ==
  \E w \in SmallPool :
    WTake(w) \/ WRequest(w) \/ WReply(w, RetryCellResponses) \/ WWake(w)

NextPool == SteadyTokenStep \/ PoolWorkerStep \/ PollerStep

SpecPool == InitAuth /\ [][NextPool]_vars

(***************************************************************************)
(* SpecLoop: the refresh loop with every way a cycle can end: without a    *)
(* token, with every cell failing, by an exception raised in               *)
(* fetch_positions, or by publishing.  Every thread that can take a step   *)
(* eventually takes one: requests return or time out, sleeps end.          *)
(***************************************************************************)
LoopCellResponses ==
  { [kind |-> "error", body |-> << >>],
    [kind |-> "ok", body |-> << RecA2, RecB >>],
    MalformedResponse }

LoopWorkerStep(w) ==
  WTake(w) \/ WRequest(w) \/ WReply(w, LoopCellResponses) \/ WWake(w)

LoopTokenStep(t) ==
  TokAcquire(t) \/ TokCheck(t) \/ TokReply(t, QuietTokenResponses)

LoopPollerStep == PollerStep \/ PCatch

NextLoop ==
  \/ LoopPollerStep
  \/ (\E w \in Workers : LoopWorkerStep(w))
  \/ (\E t \in TokenCallers : LoopTokenStep(t))

LoopFairness ==
  /\ WF_vars(LoopPollerStep)
  /\ \A w \in Workers : WF_vars(LoopWorkerStep(w))
  /\ \A t \in TokenCallers : WF_vars(LoopTokenStep(t))

SpecLoop == InitAuth /\ [][NextLoop]_vars /\ LoopFairness

(***************************************************************************)
(* SpecMerge: the merge, normalization and publish of one cycle, for       *)
(* every list of at most two different raw records per cell and every      *)
(* order in which the cell fetches complete.  It starts where every cell   *)
(* fetch of                                                                *)
(* the cycle has returned and nothing has been merged yet.                 *)
(***************************************************************************)
MergePayloads ==
  { << >> } \cup { << a >> : a \in RawRecords }
  \cup { p \in RawRecords \X RawRecords : p[1] # p[2] }

\* every cell fetch of the cycle has returned, with one of payloads
InitCollected(payloads) ==
  /\ now = 0
  /\ access_token = 1
  /\ token_expires = DefaultExpiresIn
  /\ token_lock = NoThread
  /\ tpc = [t \in TokenCallers |-> "none"]
  /\ tret = [t \in TokenCallers |-> NoReturn]
  /\ raced = [t \in TokenCallers |-> NoToken]
  /\ pc = [t \in Threads |-> IF t = Poller THEN "collect" ELSE "idle"]
  /\ cached_vehicles = InitialVehicles
  /\ last_fetch_time = 0
  /\ last_fetch_count = 0
  /\ cache_lock = NoThread
  /\ published = FALSE
  /\ token = 1
  /\ queue = << >>
  /\ fut = [c \in Cells |-> "done"]
  /\ result \in [Cells -> payloads]
  /\ outcomes = [c \in Cells |-> << [kind |-> "ok", body |-> result[c]] >>]
  /\ merged = << >>
  /\ all_vehicles = << >>
  /\ processed = << >>
  /\ cell = [w \in Workers |-> 1]
  /\ attempt = [w \in Workers |-> 0]
  /\ count = [h \in Handlers |-> 0]
  /\ data = [h \in Handlers |-> << >>]
  /\ poller_started = TRUE
  /\ poller_lock = NoThread
  /\ threads_started = 1
  /\ grid = ProgramGrid

InitMerge == InitCollected(MergePayloads)

NextMerge ==
  \/ (\E c \in Cells : PMerge(c))
  \/ PNormalize \/ PAcquire \/ PPublishVehicles \/ PPublishTime
  \/ PPublishCount

SpecMerge == InitMerge /\ [][NextMerge]_vars

(***************************************************************************)
(* SpecNormalize: as SpecMerge, with at most one raw record per cell,      *)
(* drawn from a larger set that has a record for every field whose         *)
(* absence normalization tests.                                            *)
(***************************************************************************)
\* the transportMode values of a record: every key of TRANSPORT_MODE_MAP, a
\* value that is no key of it, and "" for a record without the key
TransportModes == DOMAIN TRANSPORT_MODE_MAP \cup {"metro", ""}
\* a complete record with the given transportMode and no colours of its own
ModeRecord(mode) ==
  Raw("ref-m", Some(577100000), Some(119600000), "7", mode, None, None,
      "", "Centrum")
ModeRecords == { ModeRecord(mode) : mode \in TransportModes }

FieldRecords == RawRecords \cup {RecNoLon, RecNoName} \cup ModeRecords

FieldPayloads == { << >> } \cup { << a >> : a \in FieldRecords }

InitNormalize == InitCollected(FieldPayloads)

SpecNormalize == InitNormalize /\ [][NextMerge]_vars

(***************************************************************************)
(* The grid computation alone: the grid size and the bounding box are      *)
(* drawn from the enumerated ones and from the program's own, and the      *)
(* cells are computed once.                                                *)
(***************************************************************************)
GridInputs ==
  { [n |-> n, lower_lat |-> la, lower_lon |-> lo,
     upper_lat |-> la + sa, upper_lon |-> lo + so, cells |-> << >>] :
      n \in 1..MaxGrid, la \in GridLows, lo \in GridLows,
      sa \in 1..MaxSpan, so \in 1..MaxSpan }
  \cup {ProgramGrid}

InitGrid ==
  /\ now = 0
  /\ access_token = NoToken
  /\ token_expires = 0
  /\ token_lock = NoThread
  /\ tpc = [t \in TokenCallers |-> "none"]
  /\ tret = [t \in TokenCallers |-> NoReturn]
  /\ raced = [t \in TokenCallers |-> NoToken]
  /\ pc = [t \in Threads |-> IF t = Poller THEN "off" ELSE "idle"]
  /\ cached_vehicles = InitialVehicles
  /\ last_fetch_time = 0
  /\ last_fetch_count = 0
  /\ cache_lock = NoThread
  /\ published = FALSE
  /\ token = NoToken
  /\ queue = << >>
  /\ fut = [c \in Cells |-> "none"]
  /\ result = [c \in Cells |-> << >>]
  /\ outcomes = [c \in Cells |-> << >>]
  /\ merged = << >>
  /\ all_vehicles = << >>
  /\ processed = << >>
  /\ cell = [w \in Workers |-> 1]
  /\ attempt = [w \in Workers |-> 0]
  /\ count = [h \in Handlers |-> 0]
  /\ data = [h \in Handlers |-> << >>]
  /\ poller_started = FALSE
  /\ poller_lock = NoThread
  /\ threads_started = 0
  /\ grid \in GridInputs

NextGrid == GridCells

SpecGrid == InitGrid /\ [][NextGrid]_vars

(***************************************************************************)
(* Properties.                                                             *)
(***************************************************************************)
InPublishBlock == pc[Poller] \in {"publish_vehicles", "publish_time", "publish_count"}
InReadBlock(h) == pc[h] \in {"read_len", "read_data"}

\* C1 (Spec).  Snapshot atomicity: no read overlaps the publish block, so
\* the length a reader takes and the list it serializes are those of one
\* and the same complete list: the list in the cache when the reader took
\* the lock, which is the previous cycle's or the new cycle's and never a
\* state in between.
C1_SnapshotAtomic ==
  \A h \in Handlers :
    /\ InReadBlock(h) => ~InPublishBlock
    /\ pc[h] = "read_data" => count[h] = Len(cached_vehicles)
    /\ pc[h] = "responded" => count[h] = Len(data[h])

\* a reader waits for the lock while the publish block is half done (the
\* new list is stored, the count is still the old one), and another reader
\* has been served the previous list
C1_Witness ==
  /\ pc[Poller] = "publish_time"
  /\ Len(cached_vehicles) # last_fetch_count
  /\ \E h \in Handlers : pc[h] = "read_lock"
  /\ \E h \in Handlers :
       pc[h] = "responded" /\ data[h] # << >> /\ data[h] # cached_vehicles

\* a thread is inside a network request or a sleep
Suspended(t) ==
  \/ pc[t] \in {"get", "sleep"}
  \/ t \in TokenCallers /\ tpc[t] = "post"

\* C2 (SpecToken), as claimed: a thread that is inside a network request or
\* a sleep does not hold _token_lock.
C2_Original == \A t \in Threads : Suspended(t) => token_lock # t

\* C2 (SpecToken), amended: the token request is made while holding
\* _token_lock, and only then; a thread that is inside a cell request or a
\* sleep does not hold _token_lock, and the lock is held only inside
\* get_access_token between its check and its return.
C2_TokenLockScope ==
  \A t \in TokenCallers :
    /\ tpc[t] = "post" => token_lock = t
    /\ token_lock = t => tpc[t] \in {"check", "post"}
    /\ pc[t] \in {"get", "sleep"} => token_lock # t

\* a worker's token request is in flight, under the lock, while the other
\* worker's cell request is in flight
C2_Witness ==
  \E t \in Workers, u \in Workers :
    /\ tpc[t] = "post" /\ token_lock = t
    /\ pc[u] = "get"

\* C3 (Spec).  _cache_lock is never held across network I/O or a sleep: its
\* holder is inside the publish block or the read block, never inside a
\* token request, a cell request, a sleep or the wait for the cell fetches;
\* so while a cycle is fetching, the lock is free or held by a reader.
C3_CacheLockScope ==
  /\ \A t \in Threads : cache_lock = t => ~Suspended(t)
  /\ cache_lock = Poller => InPublishBlock
  /\ \A h \in Handlers : cache_lock = h => InReadBlock(h)

\* a reader holds the lock and reads while a cell request of the running
\* cycle is in flight
C3_Witness ==
  \E h \in Handlers, w \in Workers :
    /\ cache_lock = h /\ pc[h] = "read_data"
    /\ pc[w] = "get" /\ pc[Poller] = "collect"

\* C4 (Spec).  A read that completes before any publish returns the empty
\* list, with count 0.
C4_EmptyBeforePublish ==
  ~published =>
    \A h \in Handlers : pc[h] = "responded" => data[h] = << >> /\ count[h] = 0

\* a reader has been served while the first cycle is still fetching
C4_Witness ==
  /\ ~published
  /\ pc[Poller] = "collect"
  /\ \E w \in Workers : pc[w] = "get"
  /\ \E h \in Handlers : pc[h] = "responded" /\ data[h] = << >>

\* C5 (SpecToken), as claimed: a token returned by a call whose refresh did
\* not fail is at least 60 seconds from its expiry when returned.
C5_Original ==
  \A t \in TokenCallers :
    tpc[t] = "ret" /\ tret[t].how # "failed" => tret[t].margin >= 60

\* C5 (SpecToken), amended: a token reused from the cache is more than 60
\* seconds from the stored expiry when returned; a token returned after a
\* successful refresh is exactly the response's expires_in (3600 when the
\* response has none) from the stored expiry, whatever that value is.
C5_ReturnedMargin ==
  \A t \in TokenCallers :
    tpc[t] = "ret" =>
      /\ tret[t].how = "cached" => tret[t].margin > 60
      /\ tret[t].how = "refreshed" =>
           tret[t].margin \in ExpiresInValues \cup {3600}

\* a call returned a fresh token that expires in 30 seconds, and another
\* call returned a token from the cache
C5_Witness ==
  \E t \in TokenCallers, u \in TokenCallers :
    /\ tpc[t] = "ret" /\ tret[t].how = "refreshed" /\ tret[t].margin = 30
    /\ tpc[u] = "ret" /\ tret[u].how = "cached"

\* C6 (SpecToken).  Token reuse: when a call checks the stored token while
\* one is stored and the time is more than 60 seconds before the stored
\* expiry, it sends no token request and returns the stored token, leaving
\* the stored token and expiry as they are.
C6_TokenReuse ==
  [][\A t \in TokenCallers :
       (/\ tpc[t] = "check" /\ tpc'[t] # "check"
        /\ access_token # NoToken
        /\ now < token_expires - 60)
       => /\ tpc'[t] = "ret"
          /\ tret'[t].tok = access_token
          /\ tret'[t].how = "cached"
          /\ access_token' = access_token
          /\ token_expires' = token_expires]_vars

\* the second of two consecutive calls inside the validity window: a
\* worker is served from the cache with the token the poller's call of
\* this cycle got
C6_Witness ==
  \E w \in Workers :
    /\ tpc[w] = "ret" /\ tret[w].how = "cached"
    /\ tret[w].tok = token /\ token # NoToken
    /\ now > 0

\* C7 (SpecToken), as claimed: when the refresh inside a call fails, the
\* stored token and the stored expiry stay as they were and the call
\* returns the previously stored token (None if there was none).
C7_Original ==
  [][\A t \in TokenCallers :
       (tpc[t] = "post" /\ tpc'[t] = "ret" /\ tret'[t].how = "failed")
       => /\ access_token' = access_token
          /\ token_expires' = token_expires
          /\ tret'[t].tok = access_token]_vars

\* C8 (SpecRefresh), as claimed: a caller that waited for the lock while a
\* concurrent call refreshed successfully sends no request of its own and
\* returns the token that refresh stored.
C8_Original ==
  \A u \in TokenCallers :
    raced[u] # NoToken =>
      /\ tpc[u] # "post"
      /\ tpc[u] = "ret" => tret[u].tok = raced[u]

\* C8 (SpecRefresh), amended: at most one token request is in flight at any
\* time; a caller that waited while a concurrent call refreshed returns
\* that refresh's token whenever it is served from the cache, which it is
\* only if the new token is still more than 60 seconds from its stored
\* expiry at the caller's own check.
C8_OneRefreshAtATime ==
  /\ \A t \in TokenCallers, u \in TokenCallers :
       tpc[t] = "post" /\ tpc[u] = "post" => t = u
  /\ \A u \in TokenCallers :
       (raced[u] # NoToken /\ tpc[u] = "ret" /\ tret[u].how = "cached")
       => tret[u].tok = raced[u] /\ tret[u].margin > 60

\* both workers called while no valid token was stored; one refreshed and
\* the other, having waited, was served that same token from the cache
C8_Witness ==
  \E t \in Workers, u \in Workers :
    /\ t # u
    /\ tpc[t] = "ret" /\ tret[t].how = "refreshed"
    /\ tpc[u] = "ret" /\ tret[u].how = "cached" /\ raced[u] = tret[t].tok

\* the upstream requests made for cell c in this cycle
Requests(c) ==
  Len(outcomes[c])
    + Cardinality({ w \in Workers : pc[w] = "get" /\ cell[w] = c })

\* C9 (SpecCell).  Retry bound: fetch_cell makes at most 3 requests; it
\* returns at the first successful answer, with that answer's records;
\* when no answer is successful it has made exactly 3 requests and returns
\* the empty list.
C9_RetryBound ==
  \A c \in Cells :
    /\ Requests(c) <= 3
    /\ \A i \in 1..(Len(outcomes[c]) - 1) : outcomes[c][i].kind # "ok"
    /\ fut[c] = "done" =>
         LET o == outcomes[c]
         IN  /\ Len(o) >= 1
             /\ IF o[Len(o)].kind = "ok"
                THEN result[c] = o[Len(o)].body
                ELSE Len(o) = 3 /\ result[c] = << >>
    /\ fut[c] # "done" => result[c] = << >>

\* a cell answered 429 three times and its fetch returned the empty list,
\* while another cell succeeded at its third attempt
C9_Witness ==
  \E c \in Cells, d \in Cells :
    /\ fut[c] = "done" /\ result[c] = << >>
    /\ Len(outcomes[c]) = 3
    /\ \A i \in 1..3 : outcomes[c][i].kind = "429"
    /\ fut[d] = "done" /\ Len(outcomes[d]) = 3 /\ outcomes[d][3].kind = "ok"

\* the raw records of all cells in the order the merge sees them
RECURSIVE SeenInOrder(_)
SeenInOrder(order) ==
  IF order = << >> THEN << >>
  ELSE SeenInOrder(SubSeq(order, 1, Len(order) - 1)) \o result[order[Len(order)]]

Refs(seen) == { seen[i].detailsReference : i \in 1..Len(seen) } \ {""}

\* the first record of seen that carries the reference ref
FirstSeen(seen, ref) ==
  seen[CHOOSE i \in 1..Len(seen) :
         /\ seen[i].detailsReference = ref
         /\ \A j \in 1..(i - 1) : seen[j].detailsReference # ref]

Ids(vehicles) == { vehicles[i].id : i \in 1..Len(vehicles) }

\* C10 (SpecMerge), as claimed: the published snapshot holds exactly one
\* Vehicle per distinct reference among the valid records of all cells.
C10_Original ==
  pc[Poller] = "publish_time" =>
    LET seen == SeenInOrder(merged)
        validRefs == { seen[i].detailsReference :
                         i \in { j \in 1..Len(seen) : Kept(seen[j]) } } \ {""}
    IN  /\ Ids(cached_vehicles) = { << r >> : r \in validRefs }
        /\ Len(cached_vehicles) = Cardinality(validRefs)

\* C10 (SpecMerge), amended: the published snapshot holds exactly one
\* Vehicle per distinct reference whose first-seen record, in merge order,
\* is valid, and that Vehicle is built from the first-seen record.
C10_FirstSeenWins ==
  pc[Poller] = "publish_time" =>
    LET seen == SeenInOrder(merged)
        keptRefs == { r \in Refs(seen) : Kept(FirstSeen(seen, r)) }
    IN  /\ Range(cached_vehicles) = { Vehicle(FirstSeen(seen, r)) : r \in keptRefs }
        /\ Len(cached_vehicles) = Cardinality(keptRefs)

\* two cells each returned one vehicle of their own and one they share,
\* with different positions, and three vehicles were published, the shared
\* one as the first-merged cell reported it
C10_Witness ==
  /\ pc[Poller] = "publish_time"
  /\ Len(merged) >= 2
  /\ result[merged[1]] = << RecA2, RecB >>
  /\ result[merged[2]] = << RecC, RecA1 >>
  /\ Len(cached_vehicles) = 3
  /\ cached_vehicles[1] = Vehicle(RecA2)

\* C11 (SpecMerge), as claimed: every raw record without a reference that
\* has coordinates and a line name appears in the published snapshot,
\* with an id made of its line name and coordinates.
C11_Original ==
  pc[Poller] = "publish_time" =>
    LET seen == SeenInOrder(merged)
    IN  \A i \in 1..Len(seen) :
          (/\ seen[i].detailsReference = ""
           /\ seen[i].latitude # None /\ seen[i].longitude # None
           /\ seen[i].name # "")
          => << seen[i].name, seen[i].latitude[1], seen[i].longitude[1] >>
               \in Ids(cached_vehicles)

\* a raw record that has both coordinates and a line name
Complete(r) == r.latitude # None /\ r.longitude # None /\ r.name # ""

\* C12 (SpecNormalize).  Every Vehicle of the snapshot has a latitude, a
\* longitude and a non-empty line name, and a published snapshot has at
\* most as many vehicles as the cycle collected complete raw records,
\* hence at most as many as it collected raw records.
C12_VehiclesComplete ==
  /\ \A i \in 1..Len(cached_vehicles) :
       /\ cached_vehicles[i].lat \in Int
       /\ cached_vehicles[i].lon \in Int
       /\ cached_vehicles[i].line # ""
  /\ pc[Poller] \in {"publish_time", "publish_count"} =>
       LET seen == SeenInOrder(merged)
       IN  /\ Len(cached_vehicles)
               <= Cardinality({ i \in 1..Len(seen) : Complete(seen[i]) })
           /\ Len(cached_vehicles) <= Len(seen)

\* one cell returned a record without a line name, the other a complete
\* record, and exactly the complete one was published
C12_Witness ==
  /\ pc[Poller] = "publish_time"
  /\ \E c \in Cells, d \in Cells :
       /\ result[c] = << RecNoName >>
       /\ result[d] = << RecA1 >>
  /\ Len(cached_vehicles) = 1
  /\ cached_vehicles[1].line = "6"

\* no cell fetch is queued, running or finished
NoCellWork ==
  /\ queue = << >>
  /\ \A w \in Workers : pc[w] = "idle"
  /\ \A c \in Cells : fut[c] = "none"

\* C13 (Spec).  A cycle whose get_access_token returns no token is a
\* no-op: it goes straight to the sleep of the loop, starts no cell fetch
\* and leaves the cached snapshot, fetch time and fetch count as they
\* are; and as long as no token has ever been stored nothing has been
\* published and no cell request is made.
C13_NoTokenNoOp ==
  [][/\ (/\ pc[Poller] = "cycle_token" /\ pc'[Poller] # "cycle_token"
         /\ tret[Poller].tok = NoToken)
        => /\ pc'[Poller] = "sleep"
           /\ NoCellWork'
           /\ cached_vehicles' = cached_vehicles
           /\ last_fetch_time' = last_fetch_time
           /\ last_fetch_count' = last_fetch_count
           /\ published' = published
     /\ access_token = NoToken
        => /\ NoCellWork
           /\ ~published
           /\ cached_vehicles = << >> /\ last_fetch_count = 0]_vars

\* a cycle has ended without a token, the poller sleeps before the next
\* one, and a reader has meanwhile been served the empty snapshot
C13_Witness ==
  /\ pc[Poller] = "sleep"
  /\ access_token = NoToken
  /\ ~published
  /\ \E h \in Handlers : pc[h] = "responded" /\ data[h] = << >>

\* the fetch of cell c got a successful answer
Succeeded(c) ==
  outcomes[c] # << >> /\ outcomes[c][Len(outcomes[c])].kind = "ok"

C15_LoopGoesOn ==
  /\ (pc[Poller] = "cycle_token") ~> (pc[Poller] = "sleep")
  /\ (pc[Poller] = "sleep") ~> (pc[Poller] = "cycle_token")

\* fetch_positions has raised on a malformed answer: the exception was
\* caught and the poller sleeps, a token is stored and nothing was published
C15_Witness ==
  /\ pc[Poller] = "sleep"
  /\ access_token # NoToken
  /\ ~published

\* the handler's request is past start_poller_if_needed
PastStart(h) == pc[h] \in {"read_lock", "read_len", "read_data", "responded"}

\* C16 (Spec).  Start-once: the poller thread is started at most once,
\* and it has been started exactly once as soon as any request is past
\* start_poller_if_needed; the thread exists exactly if it was started.
C16_StartOnce ==
  /\ threads_started <= 1
  /\ \A h \in Handlers : PastStart(h) => threads_started = 1
  /\ poller_started => threads_started = 1
  /\ (pc[Poller] # "off") <=> (threads_started = 1)

\* two requests went for the start together: one has started the thread,
\* the other holds the lock for its second check and finds it started
C16_Witness ==
  \E h \in Handlers, g \in Handlers :
    /\ h # g
    /\ pc[h] = "start_recheck" /\ poller_lock = h
    /\ poller_started /\ threads_started = 1
    /\ PastStart(g)

\* C17 (Spec).  Two refresh cycles never run concurrently: one thread
\* runs the loop; cell fetches are queued or running only while that
\* thread is collecting the results of its current cycle; and between
\* cycles nothing of a cycle is left.
C17_OneCycleAtATime ==
  /\ threads_started <= 1
  /\ pc[Poller] \notin {"collect", "raised"} =>
       /\ queue = << >>
       /\ \A w \in Workers : pc[w] = "idle" /\ tpc[w] = "none"
  /\ pc[Poller] \in {"off", "init_token", "loop", "cycle_token", "sleep"} =>
       /\ \A c \in Cells : fut[c] = "none"
       /\ merged = << >> /\ all_vehicles = << >> /\ processed = << >>
       /\ cache_lock # Poller

\* a later cycle is fetching with both workers while the snapshot of an
\* earlier cycle is in the cache
C17_Witness ==
  /\ pc[Poller] = "collect"
  /\ published /\ cached_vehicles # << >>
  /\ \A w \in Workers : pc[w] = "get"

\* how many times cell c is accounted for: waiting in the queue, being
\* fetched by a worker, or fetched
Accounted(c) ==
  Cardinality({ i \in 1..Len(queue) : queue[i] = c })
    + Cardinality({ w \in Workers : pc[w] # "idle" /\ cell[w] = c })
    + (IF fut[c] = "done" THEN 1 ELSE 0)

\* C18 (SpecPool).  Bounded parallelism, for a pool of one worker and
\* more cells than workers: at most one cell fetch, hence at most one
\* positions request, is in flight at any time, retries and their sleeps
\* included, and every cell submitted in a cycle is fetched by exactly
\* one execution of fetch_cell in that cycle.
C18_BoundedPool ==
  /\ Cardinality({ c \in Cells : fut[c] = "running" }) <= 1
  /\ Cardinality({ w \in Workers : pc[w] # "idle" }) <= 1
  /\ pc[Poller] \in {"collect", "publish_lock", "publish_vehicles",
                      "publish_time", "publish_count"} =>
       \A c \in Cells :
         /\ Accounted(c) = 1
         /\ fut[c] = "pending" => outcomes[c] = << >>
         /\ fut[c] = "done" => Len(outcomes[c]) \in 1..3
  /\ pc[Poller] = "publish_lock" => \A c \in Cells : fut[c] = "done"

\* the worker's request for one cell is in flight while another cell
\* waits in the queue for a free worker
C18_Witness ==
  /\ pc[Poller] = "collect"
  /\ \E w \in Workers : pc[w] = "get"
  /\ queue # << >>
  /\ Cardinality({ c \in Cells : fut[c] = "running" }) = 1

\* C19 (Spec).  _token_lock and _cache_lock are never nested: no thread
\* holds both, no thread that holds one is waiting for the other or is
\* anywhere inside the code that takes the other, and whoever holds a
\* lock is at a point from which it goes on to release it without
\* waiting for anything.
C19_LocksNotNested ==
  \A t \in Threads :
    /\ ~(token_lock = t /\ cache_lock = t)
    /\ token_lock = t =>
         /\ pc[t] \notin {"publish_lock", "publish_vehicles", "publish_time",
                          "publish_count", "read_lock", "read_len", "read_data"}
         /\ tpc[t] \in {"check", "post"}
    /\ cache_lock = t =>
         /\ t \in TokenCallers => tpc[t] = "none"
         /\ pc[t] \in {"publish_vehicles", "publish_time", "publish_count",
                       "read_len", "read_data"}

\* both locks are held at the same time, by different threads: a reader
\* holds _cache_lock while a worker holds _token_lock
C19_Witness ==
  \E h \in Handlers, w \in Workers :
    /\ cache_lock = h
    /\ token_lock = w

\* C20 (Spec).  A read returns the list that is in the cache while the
\* reader holds the lock; the cache is written only by the publish block,
\* with the list of the cycle that is publishing, and never while a
\* reader holds the lock.  So a read returns the most recently published
\* snapshot, never an earlier one.
C20_ReadsLatest ==
  [][/\ \A h \in Handlers :
          /\ (pc[h] = "read_data" /\ pc'[h] = "responded")
               => data'[h] = cached_vehicles /\ count[h] = Len(cached_vehicles)
          /\ cache_lock = h => cached_vehicles' = cached_vehicles
     /\ cached_vehicles' # cached_vehicles
          => /\ pc[Poller] = "publish_vehicles"
             /\ cache_lock = Poller
             /\ cached_vehicles' = processed]_vars

\* two reads on either side of a publish: one reader was served the
\* previous snapshot, the other the one published since
C20_Witness ==
  \E h \in Handlers, g \in Handlers :
    /\ pc[h] = "responded" /\ pc[g] = "responded"
    /\ data[g] = cached_vehicles
    /\ data[h] # << >> /\ data[h] # data[g]
    /\ pc[Poller] = "sleep"


\* the coordinates at which a cell or the box has a side
GridLats ==
  { grid.cells[i].lat1 : i \in DOMAIN grid.cells }
    \cup { grid.cells[i].lat2 : i \in DOMAIN grid.cells }
    \cup { FromInt(grid.lower_lat), FromInt(grid.upper_lat) }
GridLons ==
  { grid.cells[i].lon1 : i \in DOMAIN grid.cells }
    \cup { grid.cells[i].lon2 : i \in DOMAIN grid.cells }
    \cup { FromInt(grid.lower_lon), FromInt(grid.upper_lon) }
\* a and b are neighbours among the coordinates of S: a < b, nothing between
Adjacent(S, a, b) ==
  /\ FracLess(a, b)
  /\ ~ \E z \in S : FracLess(a, z) /\ FracLess(z, b)
\* the cells that contain the rectangle [x1, x2] x [y1, y2]
CellsHolding(x1, x2, y1, y2) ==
  { i \in DOMAIN grid.cells :
      /\ FracLeq(grid.cells[i].lat1, x1) /\ FracLeq(x2, grid.cells[i].lat2)
      /\ FracLeq(grid.cells[i].lon1, y1) /\ FracLeq(y2, grid.cells[i].lon2) }

\* C22 (SpecGrid): the N x N cells computed for a grid size N and a bounding
\* box lie inside the box, and every elementary rectangle of the box (between
\* neighbouring side coordinates on each axis) lies in exactly one cell: the
\* cells cover the box and no two of them overlap in their interiors, in
\* exact rational arithmetic.
C22_GridPartition ==
  grid.cells # << >> =>
    /\ Len(grid.cells) = grid.n * grid.n
    /\ \A i \in DOMAIN grid.cells :
         /\ FracLeq(FromInt(grid.lower_lat), grid.cells[i].lat1)
         /\ FracLess(grid.cells[i].lat1, grid.cells[i].lat2)
         /\ FracLeq(grid.cells[i].lat2, FromInt(grid.upper_lat))
         /\ FracLeq(FromInt(grid.lower_lon), grid.cells[i].lon1)
         /\ FracLess(grid.cells[i].lon1, grid.cells[i].lon2)
         /\ FracLeq(grid.cells[i].lon2, FromInt(grid.upper_lon))
    /\ \A x1 \in GridLats, x2 \in GridLats :
         Adjacent(GridLats, x1, x2) =>
           \A y1 \in GridLons, y2 \in GridLons :
             Adjacent(GridLons, y1, y2) =>
               Cardinality(CellsHolding(x1, x2, y1, y2)) = 1

\* the cells of a 3 x 3 grid whose steps are not whole numbers, computed
C22_Witness ==
  /\ grid.n = 3
  /\ Len(grid.cells) = 9
  /\ (grid.upper_lat - grid.lower_lat) % 3 # 0
  /\ (grid.upper_lon - grid.lower_lon) % 3 # 0


VehicleTypes == {"tram", "bus", "train", "boat"}

\* C21 (SpecNormalize).  The type of every Vehicle is tram, bus, train or
\* boat; and the Vehicle published for a complete record has type tram when
\* the record's transport mode is "unknown", boat when it is "ship" or
\* "ferry", and bus when the mode is no key of the mapping table or the
\* record has no mode.
C21_TypeMapping ==
  /\ \A i \in 1..Len(processed) : processed[i].type \in VehicleTypes
  /\ \A i \in 1..Len(cached_vehicles) : cached_vehicles[i].type \in VehicleTypes
  /\ pc[Poller] \in {"publish_time", "publish_count"} =>
       LET seen == SeenInOrder(merged)
       IN  \A ref \in Refs(seen) :
             LET r == FirstSeen(seen, ref)
             IN  Complete(r) =>
                   \E i \in 1..Len(cached_vehicles) :
                     LET v == cached_vehicles[i]
                     IN  /\ v.id = << ref >>
                         /\ r.transportMode = "unknown" => v.type = "tram"
                         /\ r.transportMode \in {"ship", "ferry"} => v.type = "boat"
                         /\ r.transportMode \notin DOMAIN TRANSPORT_MODE_MAP
                              => v.type = "bus"

\* a record with a mode the table does not know and a ship were published,
\* as a bus and a boat
C21_Witness ==
  /\ pc[Poller] = "publish_time"
  /\ \E c \in Cells, d \in Cells :
       /\ result[c] = << ModeRecord("metro") >>
       /\ result[d] = << RecC >>
  /\ { cached_vehicles[i].type : i \in 1..Len(cached_vehicles) } = {"bus", "boat"}


\* C23 (SpecNormalize), as claimed: the Vehicle published for a complete
\* record takes color and fgColor from the record when the record has them,
\* and when the record has no background colour its color is the entry of
\* the fallback table for its type, for every type.
C23_Original ==
  pc[Poller] \in {"publish_time", "publish_count"} =>
    LET seen == SeenInOrder(merged)
    IN  \A ref \in Refs(seen) :
          LET r == FirstSeen(seen, ref)
          IN  Complete(r) =>
                \E i \in 1..Len(cached_vehicles) :
                  LET v == cached_vehicles[i]
                  IN  /\ v.id = << ref >>
                      /\ r.backgroundColor # None => v.color = r.backgroundColor[1]
                      /\ r.foregroundColor # None => v.fgColor = r.foregroundColor[1]
                      /\ r.backgroundColor = None =>
                           /\ v.type \in DOMAIN FALLBACK_COLORS
                           /\ v.color = FALLBACK_COLORS[v.type]


\* C24 (SpecCell).  Join before publish: from the end of the collection to
\* the end of the publish block of a cycle, every submitted cell fetch has
\* finished (with records or empty), its result has been merged, and no
\* worker is running or waiting to run a cell fetch; and a step that stores
\* a snapshot is taken in such a state.
C24_JoinBeforePublish ==
  /\ pc[Poller] \in {"publish_lock", "publish_vehicles", "publish_time",
                     "publish_count"} =>
       /\ \A c \in Cells : fut[c] = "done" /\ c \in Range(merged)
       /\ Len(merged) = NumCells
       /\ queue = << >>
       /\ \A w \in Workers : pc[w] = "idle"
       /\ processed = Normalize(all_vehicles)
  /\ (published /\ pc[Poller] \in {"publish_time", "publish_count"}) =>
       cached_vehicles = processed

\* the snapshot is about to be stored after one cell gave up empty after
\* three attempts and the other returned records
C24_Witness ==
  /\ pc[Poller] = "publish_vehicles"
  /\ \E c \in Cells, d \in Cells :
       /\ Len(outcomes[c]) = 3 /\ result[c] = << >> /\ fut[c] = "done"
       /\ result[d] # << >> /\ fut[d] = "done"
  /\ processed # << >>


\* C25 (SpecMerge).  Id uniqueness: the ids of the Vehicles of the cached
\* snapshot, and of the list about to be published, are pairwise distinct,
\* whatever the cells returned: records without reference, the same record
\* from two cells, different records with the same reference.
C25_IdsDistinct ==
  /\ \A i \in 1..Len(cached_vehicles), j \in 1..Len(cached_vehicles) :
       i # j => cached_vehicles[i].id # cached_vehicles[j].id
  /\ \A i \in 1..Len(processed), j \in 1..Len(processed) :
       i # j => processed[i].id # processed[j].id

\* two cells returned records with the same reference, one of them also a
\* record without reference and the other a second reference, and a
\* snapshot of two Vehicles was published
C25_Witness ==
  /\ pc[Poller] = "publish_time"
  /\ \E c \in Cells, d \in Cells :
       /\ result[c] = << RecA1, RecN >>
       /\ result[d] = << RecA2, RecB >>
  /\ Ids(cached_vehicles) = { << "ref-a" >>, << "ref-b" >> }
  /\ Len(cached_vehicles) = 2

=============================================================================
